---- MODULE Spec2Model ----
(***************************************************************************)
(* spearmint: reconciliation of declared products (developer products and  *)
(* gamepasses) against the remote platform, with the lock-file mapping.    *)
(*                                                                         *)
(* One process runs `spearmint sync` (cli.rs: sync): load the config, load *)
(* the mapping, build the client, iterate the declared products            *)
(* (sync.rs: sync_all_products), save the mapping, summarise and exit.     *)
(* Every remote operation is the retry loop of api/dev_products.rs and     *)
(* api/gamepasses.rs; one loop iteration (build form, send, look at the    *)
(* status) is one step of the model. Between two invocations of sync the   *)
(* user may run `spearmint init` (cli.rs: init), which writes the default  *)
(* configuration over the config file.                                     *)
(***************************************************************************)
EXTENDS Integers, Sequences, FiniteSets, TLC

VARIABLES
    config,     \* key -> Option<Product>: the products the config file declares
    assets,     \* path -> content of the local file, or Unreadable
    disk,       \* the mapping file: [exists, parses, content]
    pc,         \* position of the process inside cli::sync
    mapping,    \* the in-memory Mapping (key -> Option<MappingEntry>)
    visited,    \* keys the `for` of sync_all_products has taken, in order
    results,    \* Vec<SyncResult> built by sync_all_products
    call,       \* Option: the client operation in progress
    retries,    \* `retries` of the client operation in progress
    reqs,       \* requests sent by the client operation in progress or just returned
    delays,     \* back-off sleeps (ms) of that operation
    before,     \* the mapping when the current product's sync began
    exitCode,   \* Option<exit status of the process>
    fatal,      \* which `?` of cli::sync ended the run, or "none"
    run,        \* number of the invocation
    prev,       \* Option: what the previous invocation did ([saved, actions, order, config])
    disk0,      \* the mapping file as it was when this invocation started
    writes,     \* number of fs::write calls on the mapping file in this invocation
    accepted    \* key -> number of create requests the remote has answered with success

vars == <<config, assets, disk, pc, mapping, visited, results, call, retries,
          reqs, delays, before, exitCode, fatal, run, prev, disk0, writes,
          accepted>>

-----------------------------------------------------------------------------
(* Option<T> *)
None == <<>>
Some(v) == <<v>>
IsSome(o) == o /= <<>>
Option(S) == {None} \cup {Some(v) : v \in S}

-----------------------------------------------------------------------------
(* Bounds of the model *)
MaxId == 2          \* remote identifiers are 1..MaxId
MaxPrice == 2       \* prices are 1..MaxPrice
MaxEdits == 1       \* fields of {name, price, description} in which an initial record differs from the declaration
MaxRuns == 2        \* invocations of `spearmint sync` in one behaviour

(* Program constants *)
MAX_RETRIES == 5
BASE_RETRY_DELAY_MS == 500

BatchKeys == {"a", "b", "c"}
DefaultKeys == {"example_product", "example_gamepass"}
Keys == BatchKeys \cup DefaultKeys
Names == {"n1", "n2"}
Descriptions == {"d1"}
Paths == {"icon.png"}
Contents == {"b1", "b2"}
Unreadable == "unreadable"
Ids == 1..MaxId
Prices == 1..MaxPrice
ProductTypes == {"DevProduct", "Gamepass"}
Statuses == {200, 429, 500}

Products ==
    [product_type : ProductTypes, name : Names, price : Prices,
     description : Option(Descriptions), image : Option(Paths),
     product_id : Option(Ids)]

-----------------------------------------------------------------------------
(* sync.rs: pure helpers *)

\* SHA-256 in hex: distinct contents have distinct digests.
Sha256Hex(bytes) == CASE bytes = "b1" -> "h1" [] bytes = "b2" -> "h2"

Digests == {Sha256Hex(b) : b \in Contents}

hash_file(path) ==
    IF assets[path] = Unreadable THEN None ELSE Some(Sha256Hex(assets[path]))

image_hash(product) ==
    IF IsSome(product.image) THEN hash_file(product.image[1]) ELSE None

\* Variant: the digest of the icon is not looked at.
config_changed_without_digest(product, entry) ==
    \/ entry.name /= Some(product.name)
    \/ entry.price /= Some(product.price)
    \/ entry.description /= product.description

\* sync.rs 118-123
config_changed(product, entry) ==
    \/ entry.name /= Some(product.name)
    \/ entry.price /= Some(product.price)
    \/ entry.description /= product.description
    \/ image_hash(product) /= entry.image_hash

\* Variant: the digest of the record is left as it was.
update_mapping_entry_keeps_digest(entry, product) ==
    [entry EXCEPT !.name = Some(product.name),
                  !.price = Some(product.price),
                  !.description = product.description]

update_mapping_entry(entry, product) ==
    [entry EXCEPT !.name = Some(product.name),
                  !.price = Some(product.price),
                  !.description = product.description,
                  !.image_hash = image_hash(product)]

\* Variant: the id of the mapping is preferred to the declared one.
existing_id_mapping_first(product, m, key) ==
    IF IsSome(m[key]) THEN Some(m[key][1].roblox_id)
    ELSE product.product_id

existing_id(product, m, key) ==
    IF IsSome(product.product_id) THEN product.product_id
    ELSE IF IsSome(m[key]) THEN Some(m[key][1].roblox_id)
    ELSE None


\* Variant: a declared icon goes with every update.
update_icon_path_always(product, m, key) == product.image

\* sync.rs 150-160 (and 233-243): the icon goes with an update only if its digest changed
update_icon_path(product, m, key) ==
    IF IsSome(product.image)
    THEN LET new_hash == hash_file(product.image[1])
             old_hash == IF IsSome(m[key]) THEN m[key][1].image_hash ELSE None
         IN IF new_hash /= old_hash THEN product.image ELSE None
    ELSE None

\* sync.rs 166-171 (and 249-254)
update_request(product, m, key) ==
    [name |-> Some(product.name), price |-> Some(product.price),
     description |-> product.description,
     icon_path |-> update_icon_path(product, m, key)]

\* sync.rs 190-195 (and 273-276)
create_request(product) ==
    [name |-> Some(product.name), price |-> Some(product.price),
     description |-> product.description, icon_path |-> product.image]

\* Variant: the record is inserted anew, with the id the update was addressed to.
record_after_update_overwrite(m, key, id, product) ==
    [m EXCEPT ![key] = Some(update_mapping_entry(
                              [roblox_id |-> id, name |-> None, price |-> None,
                               description |-> None, image_hash |-> None], product))]

\* sync.rs 175-182 (and 258-265): entry(key).or_insert(..) then update_mapping_entry
record_after_update(m, key, id, product) ==
    LET entry == IF IsSome(m[key]) THEN m[key][1]
                 ELSE [roblox_id |-> id, name |-> None, price |-> None,
                       description |-> None, image_hash |-> None]
    IN [m EXCEPT ![key] = Some(update_mapping_entry(entry, product))]

\* Variant: the new record holds the id but not the declared name.
record_after_create_unnamed(m, key, id, product) ==
    [m EXCEPT ![key] = Some([roblox_id |-> id, name |-> None,
                             price |-> Some(product.price),
                             description |-> product.description,
                             image_hash |-> image_hash(product)])]

\* sync.rs 199-208 (and 280-289): mapping.insert(key, MappingEntry {..})
record_after_create(m, key, id, product) ==
    [m EXCEPT ![key] = Some([roblox_id |-> id, name |-> Some(product.name),
                             price |-> Some(product.price),
                             description |-> product.description,
                             image_hash |-> image_hash(product)])]

-----------------------------------------------------------------------------
(* api/dev_products.rs, api/gamepasses.rs *)

Ok(v) == [ok |-> TRUE, val |-> v]
Err(e) == [ok |-> FALSE, err |-> e]

\* Variant: an icon file that cannot be read is left out of the form.
build_form_lenient(request) ==
    Ok([name |-> request.name,
        price |-> IF IsSome(request.price) THEN Some(ToString(request.price[1])) ELSE None,
        description |-> request.description,
        imageFile |-> IF IsSome(request.icon_path)
                         /\ assets[request.icon_path[1]] /= Unreadable
                      THEN Some(assets[request.icon_path[1]]) ELSE None])

\* build_create_form / build_update_form: a field is in the form iff it is Some;
\* the price goes as text; the icon file is read, and an unreadable file is an error.
build_form(request) ==
    IF IsSome(request.icon_path) /\ assets[request.icon_path[1]] = Unreadable
    THEN Err("Failed to read icon file")
    ELSE Ok([name |-> request.name,
             price |-> IF IsSome(request.price) THEN Some(ToString(request.price[1])) ELSE None,
             description |-> request.description,
             imageFile |-> IF IsSome(request.icon_path)
                           THEN Some(assets[request.icon_path[1]]) ELSE None])

is_success(status) == status >= 200 /\ status < 300

\* Variant: the last retry is not granted.
should_retry_short(status, n) == status = 429 /\ n < MAX_RETRIES - 1

\* Variant: every non-success status is retried.
should_retry_any_failure(status, n) == ~is_success(status) /\ n < MAX_RETRIES

\* Variant: the comparison with MAX_RETRIES is off by one.
should_retry_inclusive(status, n) == status = 429 /\ n <= MAX_RETRIES

\* `response.status() == 429 && retries < MAX_RETRIES`
should_retry(status, n) == status = 429 /\ n < MAX_RETRIES

RECURSIVE Pow2(_)
Pow2(n) == IF n = 0 THEN 1 ELSE 2 * Pow2(n - 1)

\* `BASE_RETRY_DELAY_MS * (1 << retries)`, evaluated after `retries += 1`
retry_delay(n) == BASE_RETRY_DELAY_MS * Pow2(n)

\* What the remote (or the transport) answers to one request.
Transport == [kind |-> "transport", status |-> 0, body |-> None]
Http(status, body) == [kind |-> "http", status |-> status, body |-> body]

\* The body of a successful create is JSON holding the new id (Some(id)) or anything
\* else (None); the body of an update is never read.
Responses(op) ==
    {Transport}
    \cup {Http(s, None) : s \in {s \in Statuses : ~is_success(s)}}
    \cup {Http(s, b) : s \in {s \in Statuses : is_success(s)},
                       b \in IF op = "create" THEN Option(Ids) ELSE {None}}

\* The value the client function returns for a response it does not retry.
create_result(resp) ==
    IF resp.kind = "transport" THEN Err("error sending request")
    ELSE IF ~is_success(resp.status) THEN Err("Failed to create")
    ELSE IF IsSome(resp.body) THEN Ok(resp.body[1])
    ELSE Err("Failed to parse response")

update_result(resp) ==
    IF resp.kind = "transport" THEN Err("error sending request")
    ELSE IF ~is_success(resp.status) THEN Err("Failed to update")
    ELSE Ok(0)

client_result(op, resp) ==
    IF op = "create" THEN create_result(resp) ELSE update_result(resp)


-----------------------------------------------------------------------------
(* config.rs *)

\* Variant: only the gamepasses are checked for duplicate names.
validate_no_duplicate_names_gamepasses_only(cfg) ==
    \A k1, k2 \in Keys :
        (k1 /= k2 /\ IsSome(cfg[k1]) /\ IsSome(cfg[k2])
         /\ cfg[k1][1].product_type = "Gamepass"
         /\ cfg[k2][1].product_type = "Gamepass")
        => cfg[k1][1].name /= cfg[k2][1].name

\* validate_no_duplicate_names: TRUE iff it returns Ok
validate_no_duplicate_names(cfg) ==
    \A k1, k2 \in Keys :
        (k1 /= k2 /\ IsSome(cfg[k1]) /\ IsSome(cfg[k2])
         /\ cfg[k1][1].product_type = cfg[k2][1].product_type)
        => cfg[k1][1].name /= cfg[k2][1].name

-----------------------------------------------------------------------------
(* The process *)

EmptyMapping == [k \in Keys |-> None]
NoFile == [exists |-> FALSE, parses |-> FALSE, content |-> EmptyMapping]
File(m) == [exists |-> TRUE, parses |-> TRUE, content |-> m]
Malformed == [exists |-> TRUE, parses |-> FALSE, content |-> EmptyMapping]

Declared == {k \in Keys : IsSome(config[k])}
Visited == {visited[i] : i \in 1..Len(visited)}
Failed(rs) == {i \in 1..Len(rs) : IsSome(rs[i].error)}

\* A `?` of cli::sync returns the error to main, which exits with status 1.
Fatal(e) ==
    /\ pc' = "exited"
    /\ exitCode' = Some(1)
    /\ fatal' = e

\* cli.rs 86: config::load (config.rs 54-69)
LoadConfig ==
    /\ pc = "start"
    /\ \E file \in {"ok", "missing", "unparsable"} :
         IF file = "ok" /\ validate_no_duplicate_names(config)
         THEN pc' = "config_loaded" /\ UNCHANGED <<exitCode, fatal>>
         ELSE Fatal("config")
    /\ UNCHANGED <<config, assets, disk, mapping, visited, results, call, retries,
                   reqs, delays, before, run, prev,
                   disk0, writes, accepted>>

\* Variant: the records of keys that are not declared are dropped at the load.
load_mapping_declared_only(d) ==
    IF ~d.exists THEN Ok(EmptyMapping)
    ELSE IF ~d.parses THEN Err("Failed to parse mapping file")
    ELSE Ok([k \in Keys |-> IF IsSome(config[k]) THEN d.content[k] ELSE None])

\* sync.rs 30-41: the value load_mapping returns
load_mapping(d) ==
    IF ~d.exists THEN Ok(EmptyMapping)
    ELSE IF ~d.parses THEN Err("Failed to parse mapping file")
    ELSE Ok(d.content)

\* cli.rs 87
LoadMapping ==
    /\ pc = "config_loaded"
    /\ LET r == load_mapping(disk)
       IN IF r.ok
          THEN mapping' = r.val /\ pc' = "mapping_loaded" /\ UNCHANGED <<exitCode, fatal>>
          ELSE Fatal("mapping") /\ UNCHANGED mapping
    /\ UNCHANGED <<config, assets, disk, visited, results, call, retries,
                   reqs, delays, before, run, prev,
                   disk0, writes, accepted>>

\* cli.rs 88: Client::new (api/mod.rs 47-54) fails when the API key is not set
NewClient ==
    /\ pc = "mapping_loaded"
    /\ \E key_set \in BOOLEAN :
         IF key_set
         THEN pc' = "syncing" /\ UNCHANGED <<exitCode, fatal>>
         ELSE Fatal("client")
    /\ UNCHANGED <<config, assets, disk, mapping, visited, results, call, retries,
                   reqs, delays, before, run, prev,
                   disk0, writes, accepted>>

\* Variant: a product with an id and no record counts as unchanged.
skips_without_record(product, m, key) ==
    /\ IsSome(existing_id(product, m, key))
    /\ (m[key] = None \/ ~config_changed(product, m[key][1]))

\* sync.rs 140-147 (223-230): the local check that ends in "skipped"
skips(product, m, key) ==
    /\ IsSome(existing_id(product, m, key))
    /\ IsSome(m[key])
    /\ ~config_changed(product, m[key][1])

\* The client call sync_dev_product / sync_gamepass makes for a product it does not skip
client_call(product, m, key) ==
    LET id == existing_id(product, m, key)
    IN [op |-> IF IsSome(id) THEN "update" ELSE "create",
        product_type |-> product.product_type,
        key |-> key,
        id |-> id,
        request |-> IF IsSome(id) THEN update_request(product, m, key)
                    ELSE create_request(product)]

\* sync.rs 63-81 with sync_product (87-106) returning "skipped" at once
SkipProduct(k) ==
    /\ pc = "syncing"
    /\ k \in Declared \ Visited
    /\ skips(config[k][1], mapping, k)
    /\ visited' = Append(visited, k)
    /\ results' = Append(results, [action |-> "skipped", error |-> None])
    /\ before' = mapping
    /\ reqs' = <<>>
    /\ delays' = <<>>
    /\ UNCHANGED <<config, assets, disk, pc, mapping, call, retries, exitCode, fatal,
                   run, prev,
                   disk0, writes, accepted>>

\* sync.rs 63-64, 87-106, 140-173 / 186-197: up to the entry of the client function
BeginCall(k) ==
    /\ pc = "syncing"
    /\ k \in Declared \ Visited
    /\ ~skips(config[k][1], mapping, k)
    /\ visited' = Append(visited, k)
    /\ call' = Some(client_call(config[k][1], mapping, k))
    /\ retries' = 0
    /\ before' = mapping
    /\ reqs' = <<>>
    /\ delays' = <<>>
    /\ pc' = "calling"
    /\ UNCHANGED <<config, assets, disk, mapping, results, exitCode, fatal, run, prev,
                   disk0, writes, accepted>>

\* Variant: a failed call puts the mapping back to the one that was loaded.
mapping_after_rollback(c, r, m) ==
    IF ~r.ok THEN disk0.content
    ELSE IF c.op = "update" THEN record_after_update(m, c.key, c.id[1], config[c.key][1])
    ELSE record_after_create(m, c.key, r.val, config[c.key][1])

\* Variant: the record is written before the result of the call is looked at.
mapping_after_eager(c, r, m) ==
    IF c.op = "update" THEN record_after_update(m, c.key, c.id[1], config[c.key][1])
    ELSE IF r.ok THEN record_after_create(m, c.key, r.val, config[c.key][1])
    ELSE m

\* The client function returned `r`: the rest of sync_dev_product / sync_gamepass
\* (`?`, the mapping mutation, the Ok(..)) and the match of sync_all_products (66-81).
mapping_after(c, r, m) ==
    IF ~r.ok THEN m
    ELSE IF c.op = "update" THEN record_after_update(m, c.key, c.id[1], config[c.key][1])
    ELSE record_after_create(m, c.key, r.val, config[c.key][1])

sync_result(c, r) ==
    IF ~r.ok THEN [action |-> "error", error |-> Some(r.err)]
    ELSE [action |-> IF c.op = "update" THEN "updated" ELSE "created", error |-> None]

\* Variant: an error of sync_product is propagated with `?` and ends the iteration.
after_result_propagates(r) == IF r.ok THEN "syncing" ELSE "exited"

\* sync.rs 63-82: whatever sync_product returned, the `for` goes on
after_result(r) == "syncing"

Returns(c, r) ==
    /\ mapping' = mapping_after(c, r, mapping)
    /\ results' = Append(results, sync_result(c, r))
    /\ call' = None
    /\ retries' = 0
    /\ pc' = after_result(r)

Request(c, form, resp) ==
    [op |-> c.op, product_type |-> c.product_type, key |-> c.key, id |-> c.id,
     form |-> form, resp |-> resp]

\* One iteration of the client loop in which the form cannot be built: the `?` of
\* `build_create_form(..)?` / `build_update_form(..)?` returns before anything is sent.
FormFails ==
    /\ pc = "calling"
    /\ ~build_form(call[1].request).ok
    /\ Returns(call[1], build_form(call[1].request))
    /\ UNCHANGED <<config, assets, disk, visited, reqs, delays, before, exitCode, fatal,
                   run, prev,
                   disk0, writes, accepted>>

\* One iteration that is answered 429 with retries left: back off and go round again.
SendRetry ==
    /\ pc = "calling"
    /\ build_form(call[1].request).ok
    /\ \E resp \in Responses(call[1].op) :
         /\ resp.kind = "http"
         /\ should_retry(resp.status, retries)
         /\ reqs' = Append(reqs, Request(call[1], build_form(call[1].request).val, resp))
         /\ retries' = retries + 1
         /\ delays' = Append(delays, retry_delay(retries + 1))
    /\ UNCHANGED <<config, assets, disk, pc, mapping, visited, results, call, before,
                   exitCode, fatal, run, prev,
                   disk0, writes, accepted>>

\* The remote's side of a create: a POST it answers with a success status has made
\* a product, whatever the client then does with the body (dev_products.rs 113-122).
remote_accepted(acc, c, resp) ==
    IF c.op = "create" /\ resp.kind = "http" /\ is_success(resp.status)
    THEN [acc EXCEPT ![c.key] = @ + 1]
    ELSE acc

\* One iteration whose answer ends the client function.
SendReturn ==
    /\ pc = "calling"
    /\ build_form(call[1].request).ok
    /\ \E resp \in Responses(call[1].op) :
         /\ ~(resp.kind = "http" /\ should_retry(resp.status, retries))
         /\ reqs' = Append(reqs, Request(call[1], build_form(call[1].request).val, resp))
         /\ accepted' = remote_accepted(accepted, call[1], resp)
         /\ Returns(call[1], client_result(call[1].op, resp))
    /\ UNCHANGED <<config, assets, disk, visited, delays, before, exitCode, fatal,
                   run, prev, disk0, writes>>

\* sync.rs 53: fs::write opens the file with create + truncate, so from the open to
\* the first write(2) of write_all the file on disk is empty. An empty file is an
\* empty TOML document, which load_mapping parses as a mapping without records.
Truncated == File(EmptyMapping)

\* The numbers whose decimal text is a beginning of the text of v: a number cut after
\* one of its digits reads as a shorter number.
RECURSIVE DecimalPrefixes(_)
DecimalPrefixes(v) == IF v < 10 THEN {v} ELSE {v} \cup DecimalPrefixes(v \div 10)

\* The records the beginning of the text of r can read as. The fields are serialised
\* in the order of the struct (sync.rs 14-20), an absent one is left out, and every
\* field but roblox_id is optional when the file is read back; a text cut inside a
\* key, a header or a quoted string does not parse.
CutRecords(r) ==
    LET cut == [roblox_id |-> r.roblox_id, name |-> None, price |-> None,
                description |-> None, image_hash |-> None]
    IN {[cut EXCEPT !.roblox_id = i] : i \in DecimalPrefixes(r.roblox_id)}
       \cup {[cut EXCEPT !.name = r.name]}
       \cup (IF IsSome(r.price)
             THEN {[cut EXCEPT !.name = r.name, !.price = Some(p)] :
                     p \in DecimalPrefixes(r.price[1])}
             ELSE {})
       \cup {[cut EXCEPT !.name = r.name, !.price = r.price,
                         !.description = r.description]}

\* The files a write of m that stops part-way can leave: a prefix of the TOML text.
\* It does not parse, or it holds some of the records whole (the HashMap is serialised
\* in arbitrary order) and possibly one more record cut inside; the text short of its
\* last newline reads as m itself.
PartialFiles(m) ==
    LET present == {k \in Keys : IsSome(m[k])}
        whole(S) == [k \in Keys |-> IF k \in S THEN m[k] ELSE None]
    IN {Malformed}
       \cup {File(whole(S)) : S \in SUBSET present}
       \cup UNION {{File([whole(S \ {k}) EXCEPT ![k] = Some(c)]) :
                       c \in CutRecords(m[k][1])} :
                   S \in SUBSET present, k \in present}

\* Variant: the iteration ends as soon as one product has an outcome.
iteration_done_after_first(declared, taken) == taken /= {}

\* sync.rs 63-84: the `for` over config.products ends when every product was taken
iteration_done(declared, taken) == declared \subseteq taken

\* cli.rs 92-94: sync_all_products returns Ok(results); save_mapping begins
\* (sync.rs 43-53): create_dir_all, to_string_pretty, and the open of fs::write,
\* which truncates the file. A failure here leaves the file untouched.
SaveMapping ==
    /\ pc = "syncing"
    /\ iteration_done(Declared, Visited)
    /\ \E io \in {"ok", "untouched"} :
         IF io = "ok"
         THEN /\ disk' = Truncated
              /\ writes' = writes + 1
              /\ pc' = "saving"
              /\ UNCHANGED <<exitCode, fatal>>
         ELSE /\ UNCHANGED <<disk, writes>>
              /\ Fatal("save")
    /\ reqs' = <<>>
    /\ delays' = <<>>
    /\ UNCHANGED <<config, assets, mapping, visited, results, call, retries,
                   before, run, prev, disk0, accepted>>

\* sync.rs 53: the write_all of fs::write puts the serialised mapping in the file;
\* an I/O error part-way leaves a partial file and save_mapping returns the error.
WriteMapping ==
    /\ pc = "saving"
    /\ \E io \in {"ok", "partial"} :
         IF io = "ok"
         THEN /\ disk' = File(mapping)
              /\ pc' = "saved"
              /\ UNCHANGED <<exitCode, fatal>>
         ELSE /\ disk' \in PartialFiles(mapping)
              /\ Fatal("save")
    /\ UNCHANGED <<config, assets, mapping, visited, results, call, retries,
                   reqs, delays, before, run, prev, disk0, writes, accepted>>

\* Variant: the exit status is a failure only when every outcome is an error.
exit_status_all_failed(rs) ==
    IF Len(rs) > 0 /\ Cardinality({i \in 1..Len(rs) : IsSome(rs[i].error)}) = Len(rs)
    THEN 1 ELSE 0

\* cli.rs 104-110: `failed` counts the results with an error; exit(1) if there is one
exit_status(rs) == IF Cardinality(Failed(rs)) > 0 THEN 1 ELSE 0

\* cli.rs 97-112: code generation (unless --no-generate), the summary, the exit status
Finish ==
    /\ pc = "saved"
    /\ \E gen \in {"off", "ok", "fails"} :
         IF gen = "fails"
         THEN Fatal("generate")
         ELSE /\ pc' = "exited"
              /\ exitCode' = Some(exit_status(results))
              /\ UNCHANGED fatal
    /\ UNCHANGED <<config, assets, disk, mapping, visited, results, call, retries,
                   reqs, delays, before, run, prev,
                   disk0, writes, accepted>>

\* The process is killed (signal, power loss) at any point of the run: its memory
\* is gone, the files stay as they are at that instant. Inside fs::write that is the
\* part of the text the write(2) calls have put in the file so far.
Crash ==
    /\ pc \notin {"exited", "crashed"}
    /\ disk' \in IF pc = "saving" THEN PartialFiles(mapping) ELSE {disk}
    /\ pc' = "crashed"
    /\ fatal' = "crash"
    /\ mapping' = EmptyMapping
    /\ visited' = <<>>
    /\ results' = <<>>
    /\ call' = None
    /\ retries' = 0
    /\ reqs' = <<>>
    /\ delays' = <<>>
    /\ before' = EmptyMapping
    /\ UNCHANGED <<config, assets, exitCode, run, prev, disk0, writes, accepted>>

\* `spearmint sync` is invoked again, with the config file and the asset files as
\* they are then.
Rerun ==
    /\ pc \in {"exited", "crashed"}
    /\ run < MaxRuns
    /\ run' = run + 1
    /\ prev' = Some([saved |-> fatal \in {"none", "generate"},
                     actions |-> [i \in 1..Len(results) |-> results[i].action],
                     order |-> visited,
                     config |-> config])
    /\ pc' = "start"
    /\ mapping' = EmptyMapping
    /\ visited' = <<>>
    /\ results' = <<>>
    /\ call' = None
    /\ retries' = 0
    /\ reqs' = <<>>
    /\ delays' = <<>>
    /\ before' = EmptyMapping
    /\ exitCode' = None
    /\ fatal' = "none"
    /\ disk0' = disk
    /\ writes' = 0
    /\ UNCHANGED <<config, assets, disk, accepted>>

\* config.rs 97-134: the two example products of the default configuration
create_default ==
    [k \in Keys |->
       IF k = "example_product"
       THEN Some([product_type |-> "DevProduct", name |-> "Example Product",
                  price |-> 100, description |-> Some("An example developer product"),
                  image |-> None, product_id |-> None])
       ELSE IF k = "example_gamepass"
       THEN Some([product_type |-> "Gamepass", name |-> "Example Gamepass",
                  price |-> 500, description |-> Some("An example gamepass"),
                  image |-> None, product_id |-> None])
       ELSE None]

\* The declarations the beginning of the text of product p can read as (config.rs
\* 23-36): type, name and price are required, the description is optional, and the
\* fields after it are not part of the model.
CutProducts(p) ==
    {[p EXCEPT !.price = v, !.description = None] : v \in DecimalPrefixes(p.price)}

\* The declared sets a write of c that stops part-way can leave for config::load to
\* parse (config.rs 136-147, the same fs::write as save_mapping): some products
\* whole and possibly one more cut inside, with at least one product in the file,
\* since a text without the `products` table does not parse.
PartialConfigs(c) ==
    LET present == {k \in Keys : IsSome(c[k])}
        whole(S) == [k \in Keys |-> IF k \in S THEN c[k] ELSE None]
    IN {whole(S) : S \in (SUBSET present) \ {{}}}
       \cup UNION {{[whole(S \ {k}) EXCEPT ![k] = Some(p)] : p \in CutProducts(c[k][1])} :
                   S \in SUBSET present, k \in present}

\* main.rs 18, cli.rs 59-79: `spearmint init` while no sync is running (the next
\* invocation has not read its configuration yet), with --force or without a config
\* file; otherwise it bails and changes nothing. It writes the default configuration
\* over spearmint.toml; a write that stops part-way (an I/O error, the process
\* killed) leaves a part of it.
InitCommand ==
    /\ pc = "start"
    /\ \E io \in {"ok", "partial"} :
         config' \in IF io = "ok" THEN {create_default} ELSE PartialConfigs(create_default)
    /\ config' /= config
    /\ UNCHANGED <<assets, disk, pc, mapping, visited, results, call, retries, reqs,
                   delays, before, exitCode, fatal, run, prev, disk0, writes, accepted>>

\* `spearmint init` after an invocation of sync and before the next one
InitBetweenRuns ==
    /\ IsSome(prev)
    /\ InitCommand

\* One invocation of `spearmint sync`
NextInRun ==
    \/ LoadConfig
    \/ LoadMapping
    \/ NewClient
    \/ \E k \in Keys : SkipProduct(k)
    \/ \E k \in Keys : BeginCall(k)
    \/ FormFails
    \/ SendRetry
    \/ SendReturn
    \/ SaveMapping
    \/ WriteMapping
    \/ Finish

\* Invocations of `spearmint sync`, one after the other
Next ==
    \/ NextInRun
    \/ Crash
    \/ Rerun

\* Invocations of `spearmint sync` with invocations of `spearmint init` in between
NextRuns ==
    \/ NextInRun
    \/ Crash
    \/ Rerun
    \/ InitBetweenRuns

\* One invocation of `spearmint sync`, after `spearmint init` or not
NextInit ==
    \/ NextInRun
    \/ Crash
    \/ InitCommand

-----------------------------------------------------------------------------
(* Initial states *)

\* Records the program can have written for `product` in an earlier run, differing
\* from the declaration as it is now in at most MaxEdits of name, price, description.
\* The program only copies remote ids, so the record takes the first one and the
\* declared product_id and the ids the remote returns vary against it.
RecordsNear(product) ==
    {r \in [roblox_id : {1}, name : Option(Names) \ {None},
            price : Option(Prices) \ {None},
            description : Option(Descriptions), image_hash : Option(Digests)] :
        Cardinality({f \in {"name", "price", "description"} :
                       \/ f = "name" /\ r.name /= Some(product.name)
                       \/ f = "price" /\ r.price /= Some(product.price)
                       \/ f = "description" /\ r.description /= product.description})
          <= MaxEdits}

StartOfRun ==
    /\ pc = "start"
    /\ mapping = EmptyMapping
    /\ visited = <<>>
    /\ results = <<>>
    /\ call = None
    /\ retries = 0
    /\ reqs = <<>>
    /\ delays = <<>>
    /\ before = EmptyMapping
    /\ exitCode = None
    /\ fatal = "none"
    /\ run = 1
    /\ prev = None
    /\ disk0 = disk
    /\ writes = 0
    /\ accepted = [k \in Keys |-> 0]

\* The declarations of the single-product runs. Names and prices are interchangeable
\* values to the program (it only compares and copies them), so the declaration takes
\* the first of each and the record varies against it.
SoloProducts == {p \in Products : p.name = "n1" /\ p.price = 1}

\* One declared product, any record (or none) for it in the mapping file, and any
\* content of the icon file it names.
Init ==
    /\ \E p \in SoloProducts :
         /\ config = [k \in Keys |-> IF k = "a" THEN Some(p) ELSE None]
         /\ \E r \in {None} \cup {Some(e) : e \in RecordsNear(p)} :
              disk \in {File([k \in Keys |-> IF k = "a" THEN r ELSE None])}
                       \cup (IF r = None THEN {NoFile, Malformed} ELSE {})
         /\ assets \in IF IsSome(p.image) THEN [Paths -> {Unreadable} \cup Contents]
                       ELSE {[f \in Paths |-> Unreadable]}
    /\ StartOfRun

Spec == Init /\ [][Next]_vars


\* Three declared products of both categories. Each is new, pinned to a remote id
\* without a record, in sync with its record, or changed in price since its record;
\* the first may name an icon file.
BatchProduct(k, name, id, image) ==
    [product_type |-> IF k = "b" THEN "Gamepass" ELSE "DevProduct",
     name |-> name, price |-> 1, description |-> None, image |-> image,
     product_id |-> id]

BatchRecords(p) ==
    {None} \cup
    (IF IsSome(p.product_id) THEN {}
     ELSE {Some([roblox_id |-> 1, name |-> Some(p.name), price |-> Some(pr),
                 description |-> None, image_hash |-> None]) : pr \in {1, 2}})

InitBatch ==
    /\ \E nc \in Names, ids \in [BatchKeys -> Option({1})], img \in Option(Paths) :
         /\ config = [k \in Keys |->
                        IF k \notin BatchKeys THEN None
                        ELSE Some(BatchProduct(k, IF k = "c" THEN nc ELSE "n1", ids[k],
                                               IF k = "a" THEN img ELSE None))]
         /\ \E m \in [BatchKeys -> UNION {BatchRecords(config[k][1]) : k \in BatchKeys}] :
              /\ \A k \in BatchKeys : m[k] \in BatchRecords(config[k][1])
              /\ disk \in {File([k \in Keys |-> IF k \in BatchKeys THEN m[k] ELSE None])}
                          \cup (IF \A k \in BatchKeys : m[k] = None THEN {Malformed} ELSE {})
         /\ assets \in IF IsSome(img) THEN [Paths -> {Unreadable, "b1"}]
                       ELSE {[f \in Paths |-> Unreadable]}
    /\ StartOfRun

\* One invocation over the three products
SpecBatch == InitBatch /\ [][NextInRun]_vars

\* Invocations one after the other: over one developer product that may name an
\* icon file (which cannot be read) and is new or has a record, or over a developer
\* product and a gamepass that are both in sync with their records.
InitRuns ==
    /\ \E D \in {{"a"}, {"a", "b"}}, img \in Option(Paths) :
         /\ D = {"a", "b"} => img = None
         /\ config = [k \in Keys |->
                        IF k \in D
                        THEN Some(BatchProduct(k, "n1", None, IF k = "a" THEN img ELSE None))
                        ELSE None]
         /\ \E ra \in BatchRecords(config["a"][1]) :
              /\ D = {"a", "b"} => (IsSome(ra) /\ ra[1].price = Some(1))
              /\ disk = File([k \in Keys |->
                                IF k = "a" THEN ra
                                ELSE IF k \in D
                                THEN Some([roblox_id |-> 2, name |-> Some("n1"),
                                           price |-> Some(1), description |-> None,
                                           image_hash |-> None])
                                ELSE None])
         /\ assets = [f \in Paths |-> Unreadable]
    /\ StartOfRun

SpecRuns == InitRuns /\ [][NextRuns]_vars

\* One invocation, after `spearmint init` or not, while the mapping file holds
\* records of two declared products (the developer product may name an icon file
\* that cannot be read) and may hold the record of a product that is no longer
\* declared.
InitFrame ==
    /\ \E img \in Option(Paths) :
         /\ config = [k \in Keys |->
                        IF k \in {"a", "b"}
                        THEN Some(BatchProduct(k, "n1", None, IF k = "a" THEN img ELSE None))
                        ELSE None]
         /\ \E ra \in BatchRecords(config["a"][1]),
               rb \in {None, Some([roblox_id |-> 2, name |-> Some("n1"), price |-> Some(1),
                                    description |-> None, image_hash |-> None])},
               rc \in {None, Some([roblox_id |-> 2, name |-> Some("n2"), price |-> Some(2),
                                    description |-> None, image_hash |-> None])} :
              disk = File([k \in Keys |->
                             IF k = "a" THEN ra ELSE IF k = "b" THEN rb
                             ELSE IF k = "c" THEN rc ELSE None])
         /\ assets = [f \in Paths |-> Unreadable]
    /\ StartOfRun

SpecInit == InitFrame /\ [][NextInit]_vars

\* One invocation over the three products in which the process keeps running: main
\* blocks on the future of cli::sync (main.rs 12-29), every `.await` of a request
\* gets its response or its transport error, and every sleep ends.
InitLive ==
    /\ InitBatch
    /\ IsSome(config["a"][1].image)
    /\ config["b"][1].product_id = None
    /\ config["c"][1].product_id = Some(1)

SpecLive == InitLive /\ [][NextInRun]_vars /\ WF_vars(NextInRun)

\* One invocation over the three products that can be killed at any point
NextCrash ==
    \/ NextInRun
    \/ Crash

SpecCrash == InitLive /\ [][NextCrash]_vars


-----------------------------------------------------------------------------
(* Properties *)

Last(q) == q[Len(q)]

\* The product whose sync is in progress or has just returned, and its record before
LastKey == Last(visited)
LastProduct == config[LastKey][1]
LastFailed == Len(results) > 0 /\ IsSome(Last(results).error)

\* A request was answered with a success status
Accepted(rq) == rq.resp.kind = "http" /\ rq.resp.status >= 200 /\ rq.resp.status <= 299

\* The previous invocation saved its mapping and reported no failed outcome
PrevClean ==
    /\ IsSome(prev)
    /\ prev[1].saved
    /\ \A i \in 1..Len(prev[1].actions) : prev[1].actions[i] /= "error"

\* C1  Idempotence: when an invocation that saved its mapping without a failed outcome
\* is followed by one with the same declarations and the same asset files, the second
\* sends no request and reports "skipped" for every declared product.
C1_Idempotence ==
    PrevClean =>
        /\ reqs = <<>>
        /\ call = None
        /\ \A i \in 1..Len(results) :
             results[i].action = "skipped" /\ results[i].error = None
        /\ pc = "saved" => Len(results) = Cardinality(Declared)

\* The second invocation is through its products after a first one that created or
\* updated a product with a readable icon.
C1_Witness ==
    /\ PrevClean
    /\ pc = "saved"
    /\ Len(results) = 1
    /\ results[1].action = "skipped"
    /\ prev[1].actions[1] \in {"created", "updated"}
    /\ IsSome(mapping["a"][1].image_hash)

\* C2  Creation: a product declared without product_id and without a record, whose
\* create is answered with a success status and an id, has sent only create requests
\* of which exactly one was accepted, is reported "created", and its record holds the
\* returned id, the declared name, price and description and the digest of its icon.
C2_Creation ==
    (/\ pc = "syncing"
     /\ Len(visited) > 0
     /\ Len(reqs) > 0
     /\ LastProduct.product_id = None
     /\ before[LastKey] = None
     /\ Accepted(Last(reqs))
     /\ IsSome(Last(reqs).resp.body))
    =>
    /\ \A i \in 1..Len(reqs) : reqs[i].op = "create" /\ reqs[i].key = LastKey
    /\ Cardinality({i \in 1..Len(reqs) : Accepted(reqs[i])}) = 1
    /\ Last(results) = [action |-> "created", error |-> None]
    /\ mapping[LastKey] =
         Some([roblox_id |-> Last(reqs).resp.body[1],
               name |-> Some(LastProduct.name),
               price |-> Some(LastProduct.price),
               description |-> LastProduct.description,
               image_hash |-> IF LastProduct.image = None
                              THEN None
                              ELSE Some(Sha256Hex(assets[LastProduct.image[1]]))])

\* A gamepass with an icon was created on the second request, after one 429.
C2_Witness ==
    /\ pc = "syncing"
    /\ Len(reqs) = 2
    /\ Last(results).action = "created"
    /\ LastProduct.product_type = "Gamepass"
    /\ IsSome(LastProduct.image)
    /\ IsSome(mapping[LastKey])

\* The answer to a request is a failure of the operation
FailingAnswer(rq) ==
    \/ rq.resp.kind = "transport"
    \/ ~Accepted(rq)
    \/ rq.op = "create" /\ rq.resp.body = None

\* C3  A failed attempt never mutates the mapping: while a client operation runs the
\* mapping is as it was when the product's sync began; an operation that ends in a
\* failing answer gives an outcome with an error; an outcome "created" or "updated"
\* comes only from a request that was sent and answered without failure (so an icon
\* that cannot be read for the form gives an error too); and after an outcome with an
\* error the mapping is identical to the mapping before that product.
C3_FailedNeverMutates ==
    /\ pc = "calling" => mapping = before
    /\ (pc = "syncing" /\ Len(reqs) > 0 /\ FailingAnswer(Last(reqs))) => LastFailed
    /\ (pc = "syncing" /\ Len(results) > 0
            /\ Last(results).action \in {"created", "updated"}) =>
         Len(reqs) > 0 /\ ~FailingAnswer(Last(reqs))
    /\ (pc = "syncing" /\ LastFailed) => mapping = before /\ Last(results).action = "error"

\* An update of a product whose record differs from the declaration failed after the
\* rate limit was exhausted.
C3_Witness ==
    /\ pc = "syncing"
    /\ LastFailed
    /\ Len(reqs) = MAX_RETRIES + 1
    /\ Last(reqs).op = "update"
    /\ IsSome(mapping[LastKey])
    /\ mapping[LastKey][1].price /= Some(LastProduct.price)


\* The digest the asset of a product has now
CurrentDigest(p) ==
    IF p.image = None \/ assets[p.image[1]] = Unreadable THEN None
    ELSE Some(Sha256Hex(assets[p.image[1]]))

\* The outcome a product reaches when it is the only one declared and its own remote
\* call succeeds, from the mapping file the invocation started with.
SoloOutcome(k) ==
    LET p == config[k][1]
        rec == disk.content[k]
    IN IF /\ IsSome(rec)
          /\ rec[1].name = Some(p.name)
          /\ rec[1].price = Some(p.price)
          /\ rec[1].description = p.description
          /\ rec[1].image_hash = CurrentDigest(p)
       THEN "skipped"
       ELSE IF IsSome(p.product_id) \/ IsSome(rec) THEN "updated" ELSE "created"

\* C4  Failure isolation: a failed product never stops the iteration. Every outcome
\* so far is an error or the outcome its product reaches on its own, and
\* sync_all_products returns only with one outcome for every declared product.
C4_FailureIsolation ==
    /\ pc \in {"syncing", "calling"} =>
         \A i \in 1..Len(results) :
             results[i].action \in {SoloOutcome(visited[i]), "error"}
    /\ (pc \in {"saving", "saved", "exited"} /\ fatal \in {"none", "save", "generate"}) =>
         /\ Len(results) = Cardinality(Declared)
         /\ Visited = Declared

\* Of three products the second failed on a non-success status, the first was created
\* before it and the third updated after it.
C4_Witness ==
    /\ pc = "saved"
    /\ Len(results) = 3
    /\ results[1].action = "created"
    /\ results[2].error \in {Some("Failed to create"), Some("Failed to update")}
    /\ results[3].action = "updated"

\* Every request of the operation was answered 429
AllLimited ==
    /\ Len(reqs) > 0
    /\ \A i \in 1..Len(reqs) : reqs[i].resp.kind = "http" /\ reqs[i].resp.status = 429

\* C5  Retry bound: an operation answered 429 every time sends exactly
\* MAX_RETRIES + 1 = 6 requests, then fails: the outcome has an error and the mapping
\* is as before. No operation sends more than that.
C5_RetryBound ==
    /\ MAX_RETRIES + 1 = 6
    /\ Len(reqs) <= MAX_RETRIES + 1
    /\ (pc = "calling" /\ AllLimited) => Len(reqs) <= MAX_RETRIES /\ retries = Len(reqs)
    /\ (pc = "syncing" /\ AllLimited) =>
         /\ Len(reqs) = MAX_RETRIES + 1
         /\ LastFailed
         /\ mapping = before

\* The creation of a developer product gave up after six requests answered 429.
C5_Witness ==
    /\ pc = "syncing"
    /\ AllLimited
    /\ Len(reqs) = 6
    /\ Last(reqs).op = "create"
    /\ Last(reqs).product_type = "DevProduct"
    /\ LastFailed

\* C6  Explicit-ID correction of the mapping: after a product declared with product_id
\* E has been synced with outcome "updated", the record of its key holds E as remote id.
C6_ExplicitIdCorrected ==
    (/\ pc = "syncing"
     /\ Len(results) > 0
     /\ Last(results).action = "updated"
     /\ IsSome(LastProduct.product_id))
    =>
    /\ IsSome(mapping[LastKey])
    /\ mapping[LastKey][1].roblox_id = LastProduct.product_id[1]

\* C7  Explicit-ID precedence in the remote call: for a product declared with
\* product_id E no create request is sent, and every update request is addressed to E.
C7_ExplicitIdPrecedence ==
    /\ \A i \in 1..Len(reqs) :
         IsSome(config[reqs[i].key][1].product_id) =>
             /\ reqs[i].op = "update"
             /\ reqs[i].id = config[reqs[i].key][1].product_id
    /\ IsSome(call) =>
         (IsSome(config[call[1].key][1].product_id) =>
             /\ call[1].op = "update"
             /\ call[1].id = config[call[1].key][1].product_id)

\* An update was sent to the declared id 2 while the record held the id 1.
C7_Witness ==
    /\ Len(reqs) > 0
    /\ LastProduct.product_id = Some(2)
    /\ IsSome(before[LastKey])
    /\ before[LastKey][1].roblox_id = 1
    /\ reqs[1].op = "update"
    /\ reqs[1].id = Some(2)

\* Every record of m is in n with the same remote id
KeepsIds(m, n) ==
    \A k \in Keys : IsSome(m[k]) => IsSome(n[k]) /\ n[k][1].roblox_id = m[k][1].roblox_id

\* C8  Remote-id stability: no step of a sync changes or removes the remote id of a
\* record, in memory or from the mapping file the run started with to the one its
\* completed save leaves, the mapping loaded is the one on file, and a create request
\* is sent for a key only while the mapping has no record for it.
C8_RemoteIdStable ==
    [][/\ (pc \in {"syncing", "calling"} /\ pc' /= "crashed") => KeepsIds(mapping, mapping')
       /\ (pc = "saving" /\ pc' = "saved") => KeepsIds(disk0.content, disk'.content)
       /\ (pc = "config_loaded" /\ pc' = "mapping_loaded") => mapping' = disk.content
       /\ (Len(reqs') > Len(reqs) /\ Last(reqs').op = "create") =>
              mapping[Last(reqs').key] = None]_vars

\* In a second invocation, an update addressed to a declared id other than the
\* recorded one succeeded and the record kept its id.
C8_Witness ==
    /\ run = 2
    /\ pc = "syncing"
    /\ Len(results) > 0
    /\ Last(results).action = "updated"
    /\ IsSome(before[LastKey])
    /\ LastProduct.product_id /= None
    /\ LastProduct.product_id /= Some(before[LastKey][1].roblox_id)
    /\ mapping[LastKey][1].roblox_id = before[LastKey][1].roblox_id

\* C9  Change isolation: an update of a product whose record has the current digest,
\* sent because only the price differs, carries no image; an update sent because only
\* the content of the declared icon differs carries that icon, and the name, price and
\* description it sends are those of the record.
C9_ChangeIsolation ==
    \A i \in 1..Len(reqs) :
        LET rq == reqs[i]
            p == config[rq.key][1]
            old == before[rq.key]
        IN (rq.op = "update" /\ IsSome(old)) =>
           /\ (/\ old[1].image_hash = CurrentDigest(p)
               /\ old[1].name = Some(p.name)
               /\ old[1].description = p.description
               /\ old[1].price /= Some(p.price))
              => rq.form.imageFile = None
           /\ (/\ IsSome(p.image)
               /\ old[1].image_hash /= CurrentDigest(p)
               /\ old[1].name = Some(p.name)
               /\ old[1].description = p.description
               /\ old[1].price = Some(p.price))
              => /\ rq.form.imageFile = Some(assets[p.image[1]])
                 /\ rq.form.name = old[1].name
                 /\ rq.form.price = Some(ToString(old[1].price[1]))
                 /\ rq.form.description = old[1].description

\* An update was sent for a price change alone while the declared icon is readable
\* and has the digest of the record.
C9_Witness ==
    /\ Len(reqs) > 0
    /\ reqs[1].op = "update"
    /\ IsSome(before[LastKey])
    /\ IsSome(LastProduct.image)
    /\ IsSome(CurrentDigest(LastProduct))
    /\ before[LastKey][1].image_hash = CurrentDigest(LastProduct)
    /\ before[LastKey][1].name = Some(LastProduct.name)
    /\ before[LastKey][1].description = LastProduct.description
    /\ before[LastKey][1].price /= Some(LastProduct.price)
    /\ reqs[1].form.imageFile = None

\* C10 (as stated)  Exit status: the command ends with a failure status if and only
\* if at least one outcome of the run has an error.
C10_ExitIffFailed ==
    pc = "exited" => (exitCode /= Some(0) <=> Failed(results) /= {})

\* C10 (amended)  The command ends with a failure status if and only if at least one
\* outcome has an error or a fatal error (config, mapping file, credentials, saving,
\* code generation) ended the run; without a fatal error the status is a failure
\* exactly when some outcome has an error, however many products succeeded.
C10_ExitStatus ==
    pc = "exited" =>
        /\ IsSome(exitCode)
        /\ exitCode /= Some(0) <=> (Failed(results) /= {} \/ fatal /= "none")

\* A run without fatal error in which one of three products failed and two succeeded
\* ended with status 1.
C10_Witness ==
    /\ pc = "exited"
    /\ fatal = "none"
    /\ exitCode = Some(1)
    /\ Len(results) = 3
    /\ Cardinality(Failed(results)) = 1
    /\ \E i \in 1..3 : results[i].action = "created"

-----------------------------------------------------------------------------
(* Set-up, completion and persistence *)

\* sync_all_products has returned its result list (cli.rs 92)
Returned == pc \in {"saving", "saved", "exited"} /\ fatal \in {"none", "save", "generate"}

\* C11  Completion: once the iteration has begun, sync_all_products eventually returns,
\* and the list it returns has one outcome for each declared product, each of them
\* created, updated, skipped or error.
C11_Completion ==
    (pc = "syncing") ~>
        (/\ Returned
         /\ Len(results) = Cardinality(Declared)
         /\ Len(visited) = Len(results)
         /\ Visited = Declared
         /\ \A i \in 1..Len(results) :
               /\ results[i].action \in {"created", "updated", "skipped", "error"}
               /\ results[i].action = "error" <=> IsSome(results[i].error))

\* The iteration returned three outcomes: one skipped, one updated, one failed.
C11_Witness ==
    /\ pc = "saving"
    /\ Len(results) = 3
    /\ {results[i].action : i \in 1..3} = {"skipped", "updated", "error"}

\* Two declared products of one category have the same display name
DuplicateNames ==
    \E k1, k2 \in Declared :
        /\ k1 /= k2
        /\ config[k1][1].product_type = config[k2][1].product_type
        /\ config[k1][1].name = config[k2][1].name

\* The run ended on an error of the set-up (cli.rs 86-88)
SetUpFailed == pc = "exited" /\ fatal \in {"config", "mapping", "client"}

\* C12  Fatal set-up errors precede reconciliation: a run ended by a failing config
\* load, mapping load or client construction exits with an error, has visited no
\* product, sent no request and not written the mapping file; a config with duplicate
\* names in a category never gets past the config load, and a malformed mapping file
\* never past the mapping load.
C12_SetUpErrorsFirst ==
    /\ SetUpFailed =>
         /\ exitCode = Some(1)
         /\ visited = <<>> /\ results = <<>>
         /\ call = None /\ reqs = <<>>
         /\ writes = 0 /\ disk = disk0
    /\ DuplicateNames =>
         /\ pc \in {"start", "exited"}
         /\ pc = "exited" => fatal = "config"
    /\ (disk0.exists /\ ~disk0.parses) =>
         /\ pc \in {"start", "config_loaded", "exited"}
         /\ pc = "exited" => fatal \in {"config", "mapping"}
    /\ (pc = "calling" \/ Len(visited) > 0 \/ writes > 0) =>
         fatal \notin {"config", "mapping", "client"}

\* Two developer products are declared with the same name and the run has ended on
\* the error of the config load.
C12_Witness ==
    /\ SetUpFailed
    /\ fatal = "config"
    /\ DuplicateNames

\* The mapping file is malformed and the run has ended on the error of its load.
C12_WitnessMapping == SetUpFailed /\ fatal = "mapping" /\ disk = Malformed

\* The credentials are missing and the run has ended at the client construction.
C12_WitnessClient == SetUpFailed /\ fatal = "client" /\ disk.parses

\* C13  Batch persistence: the mapping file is written at most once in a run and only
\* after every declared product has an outcome; until that write the file is the one
\* the run started with, whatever was created or updated in memory, also when the
\* process is killed; a save that completes leaves the whole in-memory mapping on file.
C13_BatchPersistence ==
    /\ writes \in {0, 1}
    /\ writes = 0 => disk = disk0
    /\ writes = 1 =>
         pc \in {"saving", "saved", "exited", "crashed"}
    /\ (writes = 1 /\ pc /= "crashed") =>
         /\ Visited = Declared
         /\ Len(results) = Cardinality(Declared)
    /\ pc \in {"syncing", "calling"} => writes = 0
    /\ (pc = "saved" \/ (pc = "exited" /\ fatal \in {"none", "generate"})) =>
         /\ writes = 1
         /\ disk = File(mapping)

\* Two products were created and the third is being synced; the file is still the
\* one of the start and holds neither record.
C13_Witness ==
    /\ pc = "calling"
    /\ writes = 0
    /\ Len(results) = 2
    /\ \A i \in 1..2 :
          /\ results[i].action = "created"
          /\ IsSome(mapping[visited[i]])
          /\ disk.content[visited[i]] = None

\* The process was killed before the write of a run whose file held a record.
C13_WitnessCrash ==
    /\ pc = "crashed"
    /\ writes = 0
    /\ disk.parses
    /\ disk.content /= EmptyMapping

\* The record holds the declared values of product p
HoldsDeclared(rec, p) ==
    /\ IsSome(rec)
    /\ rec[1].name = Some(p.name)
    /\ rec[1].price = Some(p.price)
    /\ rec[1].description = p.description
    /\ rec[1].image_hash = CurrentDigest(p)

\* The run got past its save without a fatal error
SavedRun == pc = "saved" \/ (pc = "exited" /\ fatal \in {"none", "generate"})

\* C14  Partial failure does not lose successes: after the save of a run with a failed
\* outcome, the file holds for every created or updated product a record with its
\* declared values, and for every failed product what the file held at the start; the
\* failure status is only set once the file is written.
C14_PartialFailure ==
    /\ (SavedRun /\ Failed(results) /= {}) =>
         /\ writes = 1
         /\ \A i \in 1..Len(results) :
               /\ results[i].action \in {"created", "updated"} =>
                     HoldsDeclared(disk.content[visited[i]], config[visited[i]][1])
               /\ results[i].action = "error" =>
                     disk.content[visited[i]] = disk0.content[visited[i]]
         /\ (pc = "exited" /\ fatal = "none") => exitCode = Some(1)
    /\ (pc \in {"syncing", "calling", "saving", "saved"}) => exitCode = None
    /\ (exitCode = Some(1) /\ fatal = "none") =>
         /\ writes = 1
         /\ disk = File(mapping)

\* The run exited with the failure status: one product failed, one was created and
\* one updated, and the file holds the records of these two.
C14_Witness ==
    /\ pc = "exited"
    /\ fatal = "none"
    /\ exitCode = Some(1)
    /\ Len(results) = 3
    /\ {results[i].action : i \in 1..3} = {"error", "created", "updated"}
    /\ results[1].action = "created"
    /\ results[2].action = "error"
    /\ disk.content[visited[1]] /= disk0.content[visited[1]]
    /\ disk.content[visited[3]] /= disk0.content[visited[3]]

\* C15  Atomic persistence: at every instant of a run the mapping file is either the
\* complete file the run started with or the complete new mapping. (Stated for the
\* instants at which the process is alive, the in-memory mapping being the new one;
\* the file a killed process leaves is the file of the instant it was killed at.)
C15_AtomicPersistence ==
    pc /= "crashed" => disk \in {disk0, File(mapping)}

\* The process was killed between the truncation and the write: the file started
\* with records, and what is left of it is an empty file.
C15_TruncatedAtCrash ==
    /\ pc = "crashed"
    /\ writes = 1
    /\ disk0.parses
    /\ disk0.content /= EmptyMapping
    /\ disk = Truncated

\* The process was killed inside the write: the file that is left parses, and holds
\* for a key that had a full record one with the remote id alone.
C15_CutRecordAtCrash ==
    /\ pc = "crashed"
    /\ writes = 1
    /\ disk.parses
    /\ \E k \in Keys :
          /\ IsSome(disk0.content[k]) /\ IsSome(disk0.content[k][1].name)
          /\ IsSome(disk.content[k])
          /\ disk.content[k][1].roblox_id = disk0.content[k][1].roblox_id
          /\ disk.content[k][1].name = None
          /\ disk.content[k][1].price = None

-----------------------------------------------------------------------------
(* The retry loop *)

\* C16  Backoff schedule: the sleep that follows the rate-limited attempt number n
\* (from 0) of an operation is BASE_RETRY_DELAY_MS * 2^n: the successive sleeps are
\* 500, 1000, 2000, 4000, 8000 ms.
C16_BackoffSchedule ==
    /\ \A i \in 1..Len(delays) : delays[i] = BASE_RETRY_DELAY_MS * Pow2(i - 1)
    /\ Len(delays) = MAX_RETRIES => delays = <<500, 1000, 2000, 4000, 8000>>

\* The sleeps of an operation that was rate-limited until it gave up
C16_SleepsOfTheCode ==
    /\ pc = "syncing"
    /\ AllLimited
    /\ delays = <<1000, 2000, 4000, 8000, 16000>>

\* A request was answered 429
Limited(rq) == rq.resp.kind = "http" /\ rq.resp.status = 429

\* A request got a transport error or a non-success status other than 429
HardFailure(rq) ==
    \/ rq.resp.kind = "transport"
    \/ rq.resp.kind = "http" /\ ~Accepted(rq) /\ rq.resp.status /= 429

\* C17  No retry on non-rate-limit failures: a request that gets a transport error or a
\* non-success status other than 429 is the last of its operation, which ends in
\* failure without a sleep after it: while an operation runs every request it has sent
\* was answered 429 and followed by one sleep, and in a returned operation only the
\* last request can have another answer.
C17_NoRetryOnHardFailure ==
    /\ pc = "calling" =>
         /\ \A i \in 1..Len(reqs) : Limited(reqs[i])
         /\ Len(delays) = Len(reqs)
         /\ retries = Len(reqs)
    /\ (pc = "syncing" /\ Len(reqs) > 0) =>
         /\ \A i \in 1..(Len(reqs) - 1) : Limited(reqs[i])
         /\ Len(delays) = Len(reqs) - 1
         /\ HardFailure(Last(reqs)) =>
               /\ LastFailed
               /\ Last(results).action = "error"
               /\ mapping = before

\* An operation was answered 429 twice and then 500: it failed after three requests
\* and two sleeps.
C17_Witness ==
    /\ pc = "syncing"
    /\ Len(reqs) = 3
    /\ Limited(reqs[1]) /\ Limited(reqs[2])
    /\ reqs[3].resp.kind = "http" /\ reqs[3].resp.status = 500
    /\ Len(delays) = 2
    /\ LastFailed

\* The first request of an operation got a transport error and the operation failed.
C17_WitnessTransport ==
    /\ pc = "syncing"
    /\ Len(reqs) = 1
    /\ reqs[1].resp.kind = "transport"
    /\ delays = <<>>
    /\ LastFailed

\* The record an immediately successful operation with the answer of request rq
\* leaves for the current product
RecordOnSuccess(rq) ==
    [roblox_id |-> IF rq.op = "create" THEN rq.resp.body[1]
                   ELSE IF IsSome(before[LastKey]) THEN before[LastKey][1].roblox_id
                   ELSE rq.id[1],
     name |-> Some(LastProduct.name),
     price |-> Some(LastProduct.price),
     description |-> LastProduct.description,
     image_hash |-> CurrentDigest(LastProduct)]

\* C18  Transient rate limits are tolerated: an operation whose last request was
\* answered with success had only 429 answers before it, at most MAX_RETRIES of them,
\* sent the same request each time, and ends exactly as after an immediate success:
\* outcome created or updated without error and the record of an immediate success.
\* An operation gives up on a 429 only after MAX_RETRIES of them were retried.
C18_TransientRateLimits ==
    /\ (pc = "syncing" /\ Len(reqs) > 0 /\ ~FailingAnswer(Last(reqs))) =>
         /\ Len(reqs) <= MAX_RETRIES + 1
         /\ \A i \in 1..(Len(reqs) - 1) :
               /\ Limited(reqs[i])
               /\ [reqs[i] EXCEPT !.resp = Last(reqs).resp] = Last(reqs)
         /\ Last(results) =
               [action |-> IF Last(reqs).op = "create" THEN "created" ELSE "updated",
                error |-> None]
         /\ mapping = [before EXCEPT ![LastKey] = Some(RecordOnSuccess(Last(reqs)))]
    /\ (pc = "syncing" /\ Len(reqs) > 0 /\ Limited(Last(reqs))) =>
         Len(reqs) = MAX_RETRIES + 1
    /\ pc = "calling" => Len(reqs) <= MAX_RETRIES

\* An update was answered 429 MAX_RETRIES times and then 200: six requests, outcome
\* updated, and the record holds the new price.
C18_Witness ==
    /\ pc = "syncing"
    /\ Len(reqs) = MAX_RETRIES + 1
    /\ \A i \in 1..MAX_RETRIES : Limited(reqs[i])
    /\ Accepted(Last(reqs))
    /\ Last(results).action = "updated"
    /\ IsSome(before[LastKey])
    /\ before[LastKey][1].price /= Some(LastProduct.price)
    /\ mapping[LastKey][1].price = Some(LastProduct.price)

\* A create was answered 429 once and then 200 with an id.
C18_WitnessCreate ==
    /\ pc = "syncing"
    /\ Len(reqs) = 2
    /\ Limited(reqs[1])
    /\ Last(results).action = "created"
    /\ IsSome(mapping[LastKey])
    /\ before[LastKey] = None

-----------------------------------------------------------------------------
(* Explicit remote ids *)

\* The product being synced, or just synced, declares a product_id and the mapping
\* had no record for its key when its sync began.
ExplicitIdNoRecord ==
    /\ pc \in {"calling", "syncing"}
    /\ Len(visited) > 0
    /\ IsSome(LastProduct.product_id)
    /\ before[LastKey] = None

\* C19  Explicit id without a record forces an update: such a product is never skipped
\* and never created; every request for it is an update addressed to the declared id,
\* carrying the declared name, price and description and the icon iff one is declared
\* and readable; on success the outcome is updated and a record with the declared id
\* and the declared name, price, description and digest is inserted.
C19_ExplicitIdForcesUpdate ==
    ExplicitIdNoRecord =>
        /\ pc = "calling" =>
              /\ call[1].op = "update"
              /\ call[1].id = LastProduct.product_id
              /\ build_form(call[1].request).ok
        /\ \A i \in 1..Len(reqs) :
              /\ reqs[i].op = "update"
              /\ reqs[i].key = LastKey
              /\ reqs[i].id = LastProduct.product_id
              /\ reqs[i].product_type = LastProduct.product_type
              /\ reqs[i].form.name = Some(LastProduct.name)
              /\ reqs[i].form.price = Some(ToString(LastProduct.price))
              /\ reqs[i].form.description = LastProduct.description
              /\ reqs[i].form.imageFile =
                    (IF IsSome(LastProduct.image) /\ assets[LastProduct.image[1]] /= Unreadable
                     THEN Some(assets[LastProduct.image[1]]) ELSE None)
        /\ pc = "syncing" =>
              /\ Len(reqs) > 0
              /\ Last(results).action \in {"updated", "error"}
              /\ Last(results).action = "updated" <=> Accepted(Last(reqs))
              /\ Accepted(Last(reqs)) =>
                    mapping[LastKey] =
                        Some([roblox_id |-> LastProduct.product_id[1],
                              name |-> Some(LastProduct.name),
                              price |-> Some(LastProduct.price),
                              description |-> LastProduct.description,
                              image_hash |-> CurrentDigest(LastProduct)])
              /\ ~Accepted(Last(reqs)) => mapping[LastKey] = None

\* A product with a declared id, a readable icon and no record was updated: the
\* request carried the icon and the record was inserted with the declared id.
C19_Witness ==
    /\ ExplicitIdNoRecord
    /\ pc = "syncing"
    /\ Last(results).action = "updated"
    /\ IsSome(Last(reqs).form.imageFile)
    /\ IsSome(mapping[LastKey])
    /\ mapping[LastKey][1].roblox_id = LastProduct.product_id[1]
    /\ IsSome(mapping[LastKey][1].image_hash)

\* The same with a declared icon that cannot be read: the update went without it.
C19_WitnessUnreadable ==
    /\ ExplicitIdNoRecord
    /\ pc = "syncing"
    /\ Last(results).action = "updated"
    /\ IsSome(LastProduct.image)
    /\ Last(reqs).form.imageFile = None
    /\ mapping[LastKey][1].image_hash = None

\* The product just synced declares a product_id and the mapping held a record with
\* another remote id for its key when its sync began.
StaleRecord ==
    /\ pc = "syncing"
    /\ Len(visited) > 0
    /\ IsSome(LastProduct.product_id)
    /\ IsSome(before[LastKey])
    /\ before[LastKey][1].roblox_id /= LastProduct.product_id[1]

\* C20  A stale mapped id is never skipped over: a product with a declared id whose
\* record holds a different remote id always gets an update addressed to the declared
\* id (outcome updated or error, never skipped), also when the record's name, price,
\* description and digest equal the declared ones.
C20_StaleIdNeverSkipped ==
    StaleRecord =>
        /\ Last(results).action \in {"updated", "error"}
        /\ Last(results).action = "updated" => Len(reqs) > 0
        /\ \A i \in 1..Len(reqs) :
              reqs[i].op = "update" /\ reqs[i].id = LastProduct.product_id

\* A product with a declared id was skipped without a request although its record
\* holds another remote id: the record's other fields equal the declared ones.
C20_StaleSkipped ==
    /\ StaleRecord
    /\ Last(results).action = "skipped"
    /\ reqs = <<>>
    /\ ~config_changed(LastProduct, before[LastKey][1])
    /\ mapping = before

-----------------------------------------------------------------------------
(* Change detection and the content of updates *)

\* C21  No changed field is dropped from an update: every update request for a product
\* with a record carries each of name, price and description whose declared value
\* differs from the record's, a description that became absent included, and carries
\* the declared icon iff its current digest differs from the record's digest.
C21_NoChangedFieldDropped ==
    \A i \in 1..Len(reqs) :
        LET rq == reqs[i]
            p == config[rq.key][1]
            old == before[rq.key]
        IN (rq.op = "update" /\ IsSome(old)) =>
           /\ old[1].name /= Some(p.name) => rq.form.name = Some(p.name)
           /\ old[1].price /= Some(p.price) => rq.form.price = Some(ToString(p.price))
           /\ old[1].description /= p.description =>
                 IsSome(rq.form.description) /\ rq.form.description = p.description
           /\ IsSome(p.image) =>
                 (IsSome(rq.form.imageFile) <=> old[1].image_hash /= CurrentDigest(p))

\* An update was accepted for a product whose description went from a value to
\* absent: the request had no description field, and the record now holds none.
C21_DescriptionRemovalDropped ==
    /\ pc = "syncing"
    /\ Len(reqs) > 0
    /\ Last(reqs).op = "update"
    /\ Accepted(Last(reqs))
    /\ IsSome(before[LastKey])
    /\ IsSome(before[LastKey][1].description)
    /\ LastProduct.description = None
    /\ Last(reqs).form.description = None
    /\ mapping[LastKey][1].description = None

\* Every update request for a product with a record whose declared description is
\* present carries what C21 asks for.
C21_HoldsWithDescription ==
    \A i \in 1..Len(reqs) :
        LET rq == reqs[i]
            p == config[rq.key][1]
            old == before[rq.key]
        IN (rq.op = "update" /\ IsSome(old) /\ IsSome(p.description)) =>
           /\ rq.form.name = Some(p.name)
           /\ rq.form.price = Some(ToString(p.price))
           /\ rq.form.description = p.description
           /\ IsSome(p.image) =>
                 (IsSome(rq.form.imageFile) <=> old[1].image_hash /= CurrentDigest(p))

\* The product just taken had a record when its sync began
HadRecord ==
    /\ pc \in {"calling", "syncing"}
    /\ Len(visited) > 0
    /\ IsSome(before[LastKey])

\* The record the product had holds the declared name, price and description and the
\* current digest of its icon (absent when none is declared or the file is unreadable)
RecordCurrent ==
    /\ before[LastKey][1].name = Some(LastProduct.name)
    /\ before[LastKey][1].price = Some(LastProduct.price)
    /\ before[LastKey][1].description = LastProduct.description
    /\ before[LastKey][1].image_hash = CurrentDigest(LastProduct)

\* C22  Skip exactly when unchanged: a product with a record is skipped, without a
\* request and with the mapping left as it was, iff the record holds the declared name,
\* price and description and the current digest; otherwise an update is attempted:
\* the client's update is called, every request is an update, and the outcome is
\* updated or error.
C22_SkipIffUnchanged ==
    HadRecord =>
        /\ pc = "calling" => (~RecordCurrent /\ call[1].op = "update")
        /\ pc = "syncing" =>
              /\ Last(results).action = "skipped" <=> RecordCurrent
              /\ RecordCurrent =>
                    /\ Last(results) = [action |-> "skipped", error |-> None]
                    /\ reqs = <<>>
                    /\ mapping = before
              /\ ~RecordCurrent =>
                    /\ Last(results).action \in {"updated", "error"}
                    /\ \A i \in 1..Len(reqs) :
                          reqs[i].op = "update" /\ reqs[i].key = LastKey
                    /\ reqs = <<>> =>
                          Last(results).error = Some("Failed to read icon file")

\* A product whose record holds the declared fields and the digest of its readable
\* icon was skipped.
C22_Witness ==
    /\ HadRecord
    /\ pc = "syncing"
    /\ RecordCurrent
    /\ IsSome(CurrentDigest(LastProduct))
    /\ Last(results).action = "skipped"

\* A product whose record differs from the declaration in the digest alone was
\* updated.
C22_WitnessDigest ==
    /\ HadRecord
    /\ pc = "syncing"
    /\ before[LastKey][1].name = Some(LastProduct.name)
    /\ before[LastKey][1].price = Some(LastProduct.price)
    /\ before[LastKey][1].description = LastProduct.description
    /\ before[LastKey][1].image_hash /= CurrentDigest(LastProduct)
    /\ Last(results).action = "updated"

-----------------------------------------------------------------------------
(* Order, frame and creation across invocations *)

\* The previous invocation saved its mapping after skipping every declared product:
\* this invocation has the same config, loads the same mapping, and (skipping again)
\* never reaches the gateway.
PrevAllSkipped ==
    /\ IsSome(prev)
    /\ prev[1].saved
    /\ prev[1].config = config
    /\ Len(prev[1].order) = Cardinality(Declared)
    /\ \A i \in 1..Len(prev[1].actions) : prev[1].actions[i] = "skipped"

\* C23  Deterministic processing order: an invocation with the same declared set,
\* mapping and gateway behaviour as the one before takes the products in the same
\* key order.
C23_DeterministicOrder ==
    PrevAllSkipped =>
        \A i \in 1..Len(visited) : visited[i] = prev[1].order[i]

\* Two invocations with the same inputs took the two products in opposite orders.
C23_OrdersDiffer ==
    /\ PrevAllSkipped
    /\ pc = "saved"
    /\ prev[1].order = <<"a", "b">>
    /\ visited = <<"b", "a">>
    /\ \A i \in 1..2 : results[i].action = "skipped"
    /\ disk = disk0

\* The mapping of the invocation is in memory (loaded, and the process is alive)
MappingLive == pc \in {"mapping_loaded", "syncing", "calling", "saving", "saved"}

\* The mapping holding only the record of key k of mapping m
OnlyKey(m, k) == [j \in Keys |-> IF j = k THEN m[j] ELSE None]

\* C24  Frame and monotonicity of the mapping: the sync of a product changes at most
\* the record of its own key and decides from that record alone; the record of every
\* key not yet taken, a key that is no longer declared included, is the one that was
\* loaded; no record that was loaded or written is ever gone from the mapping, and a
\* completed save leaves all of them on file.
C24_FrameAndMonotonicity ==
    /\ MappingLive =>
         \A k \in Keys :
            /\ k \notin Visited => mapping[k] = disk0.content[k]
            /\ IsSome(disk0.content[k]) => IsSome(mapping[k])
            /\ IsSome(before[k]) => IsSome(mapping[k])
            /\ (pc \in {"syncing", "calling"} /\ Len(visited) > 0 /\ k /= LastKey) =>
                  mapping[k] = before[k]
    /\ pc = "calling" =>
         /\ call[1] = client_call(LastProduct, OnlyKey(before, LastKey), LastKey)
         /\ ~skips(LastProduct, OnlyKey(before, LastKey), LastKey)
         /\ mapping = before
    /\ (pc = "syncing" /\ Len(visited) > 0 /\ Last(results).action = "skipped") =>
         skips(LastProduct, OnlyKey(before, LastKey), LastKey)
    /\ SavedRun =>
         /\ disk.parses
         /\ \A k \in Keys :
               /\ IsSome(disk0.content[k]) => IsSome(disk.content[k])
               /\ k \notin Declared => disk.content[k] = disk0.content[k]

\* A run created one product and updated the other while the mapping held the
\* record of a key that is no longer declared: the saved file still holds that record.
C24_Witness ==
    /\ pc = "saved"
    /\ Len(results) = 2
    /\ {results[i].action : i \in 1..2} = {"created", "updated"}
    /\ "c" \notin Declared
    /\ IsSome(disk0.content["c"])
    /\ disk.content["c"] = disk0.content["c"]
    /\ disk /= disk0

\* After `spearmint init` the invocation created the two products of the default
\* configuration; the records of the three keys that are no longer declared are on
\* file as they were.
C24_WitnessInit ==
    /\ pc = "saved"
    /\ config = create_default
    /\ Len(results) = 2
    /\ \A i \in 1..2 : results[i].action = "created"
    /\ \A k \in BatchKeys : IsSome(disk0.content[k]) /\ disk.content[k] = disk0.content[k]
    /\ \A k \in DefaultKeys : disk0.content[k] = None /\ IsSome(disk.content[k])

\* Every invocation so far ran to its end and saved its mapping, so that the current
\* one loaded the mapping the one before had saved (stated for up to two invocations).
CompletedRuns ==
    /\ pc /= "crashed"
    /\ fatal \notin {"save", "crash"}
    /\ run = 1 \/ (run = 2 /\ prev[1].saved)

\* C25  No double creation across runs: over completed invocations the remote accepts
\* at most one create per key; a create is only sent for a key for which none was
\* accepted before, and once one was accepted the mapping an invocation saves holds a
\* record for the key.
C25_NoDoubleCreation ==
    CompletedRuns =>
        \A k \in Keys :
            /\ accepted[k] <= 1
            /\ (pc = "calling" /\ call[1].op = "create" /\ call[1].key = k) =>
                  accepted[k] = 0
            /\ (SavedRun /\ accepted[k] >= 1) => IsSome(disk.content[k])

\* The remote accepted a create for the same key in each of two completed
\* invocations, the second of which loaded the mapping the first had saved.
C25_CreatedTwice ==
    /\ CompletedRuns
    /\ run = 2
    /\ pc = "saved"
    /\ \E k \in Declared :
          /\ accepted[k] = 2
          /\ disk0.content[k] = None

-----------------------------------------------------------------------------
(* Unreadable icon files *)

\* The product being synced, or just synced, declares an icon file that cannot be read
UnreadableIcon ==
    /\ pc \in {"calling", "syncing"}
    /\ Len(visited) > 0
    /\ IsSome(LastProduct.image)
    /\ assets[LastProduct.image[1]] = Unreadable

\* Its sync is a creation: no declared id and no record
IsCreation == LastProduct.product_id = None /\ before[LastKey] = None

\* The digest of its record, absent without a record
RecordDigest == IF IsSome(before[LastKey]) THEN before[LastKey][1].image_hash ELSE None

\* C26  An unreadable asset blocks the upload before the remote is touched: a creation
\* with a declared icon that cannot be read, and an update of a product whose record
\* has a digest while the declared icon cannot be read, fail without a request, with
\* an error outcome and the mapping unchanged; an update of a product whose icon
\* cannot be read and whose record has no digest goes without the icon.
C26_UnreadableAssetBlocks ==
    UnreadableIcon =>
        /\ (IsCreation \/ IsSome(RecordDigest)) =>
              /\ reqs = <<>>
              /\ retries = 0
              /\ mapping = before
              /\ pc = "syncing" =>
                    Last(results) = [action |-> "error",
                                     error |-> Some("Failed to read icon file")]
        /\ (~IsCreation /\ RecordDigest = None) =>
              /\ \A i \in 1..Len(reqs) :
                    reqs[i].op = "update" /\ reqs[i].form.imageFile = None
              /\ pc = "syncing" =>
                    /\ Last(results).action \in {"skipped", "updated", "error"}
                    /\ Last(results).action /= "skipped" => Len(reqs) > 0
                    /\ Last(results).error /= Some("Failed to read icon file")

\* The update of a product whose record has a digest failed on the icon file that
\* cannot be read, without a request.
C26_Witness ==
    /\ UnreadableIcon
    /\ pc = "syncing"
    /\ ~IsCreation
    /\ IsSome(RecordDigest)
    /\ reqs = <<>>
    /\ Last(results).error = Some("Failed to read icon file")

\* A creation failed on the icon file that cannot be read, without a request.
C26_WitnessCreate ==
    /\ UnreadableIcon
    /\ pc = "syncing"
    /\ IsCreation
    /\ reqs = <<>>
    /\ Last(results).action = "error"
    /\ mapping[LastKey] = None

\* The update of a product whose record has no digest was accepted without the icon.
C26_WitnessProceeds ==
    /\ UnreadableIcon
    /\ pc = "syncing"
    /\ IsSome(before[LastKey])
    /\ RecordDigest = None
    /\ Last(results).action = "updated"
    /\ Last(reqs).form.imageFile = None

====
